---- MODULE Spec2Model ----
(***************************************************************************)
(* Range-sum cache of src/task-1.py: an LRU store (OrderedDict) in front   *)
(* of a mutable integer array, with point updates that sweep the store.    *)
(* Python semantics are kept: list slicing clamps and never raises, a      *)
(* negative list index wraps around, an index outside [-N, N) raises       *)
(* IndexError, and LRUCache.get answers -1 for an absent key.  The sliding *)
(* window rate limiter of src/task-2.py is modelled beside it.             *)
(***************************************************************************)
EXTENDS Integers, Sequences, FiniteSets

\* ------------------------------------------------------------------ bounds
\* Length of the backing array.
ArrLen == 2
\* Largest capacity a cache is constructed with.
MaxCapacity == 2

\* Element values of the array and values written by update / put.
Values == {-1, 1}
\* Index arguments of update: one below 0 (wraps), the valid ones, one past the end.
Indices == (0 - 1)..ArrLen
\* Range arguments: every valid range, every left > right inside the array and
\* every right one past the end.
Lefts == 0..(ArrLen - 1)
Rights == 0..ArrLen
\* Capacities tried at construction: LRUCache.__init__ accepts any integer.
Capacities == (0 - 1)..MaxCapacity
\* Keys are (left, right) tuples; nothing in the code restricts them.
Keys == Lefts \X Rights

VARIABLES
  pc,        \* "new" before LRUCache(...) has run, "ready" after
  capacity,  \* LRUCache.capacity
  data,      \* LRUCache._data: sequence of [k, v], oldest first
  array,     \* the array served through the cache (arr2 in main)
  arrayNC,   \* the uncached copy of the same array (arr1 in main)
  ret,       \* what the last cached-side call gave back
  retNC,     \* what the same call gave back on the uncached side
  last,      \* the last call: see Call
  promo,     \* the last get that hit, while only new keys were put since
  fresh,     \* number of puts since construction while every call was a put
             \* of a key not in the store (-1 once another call was made)
  serial,    \* whether calls on the shared cache are made under one lock
  thr,       \* the calls in progress when two threads share the cache
  limiter,   \* SlidingWindowRateLimiter: window_size and max_requests
  now,       \* time.time()
  history,   \* SlidingWindowRateLimiter.history: user -> deque of timestamps
  accepted,  \* per user, every timestamp record_message has accepted
  lret       \* the last call on the limiter and what it gave back

\* the variables of src/task-1.py
cacheVars == <<pc, capacity, data, array, arrayNC, ret, retNC, last, promo, fresh>>
\* the variables of two threads sharing the cache
threadVars == <<serial, thr>>
\* the variables of src/task-2.py
limiterVars == <<limiter, now, history, accepted, lret>>

vars == <<cacheVars, threadVars, limiterVars>>

\* ------------------------------------------------------- return values
NoRet == [kind |-> "none", val |-> 0]
Value(x) == [kind |-> "value", val |-> x]
Void == [kind |-> "void", val |-> 0]
IndexError == [kind |-> "IndexError", val |-> 0]

NoKey == <<>>

\* ------------------------------------------------------- OrderedDict
Entry(key, value) == [k |-> key, v |-> value]

KeysOf(d) == {d[j].k : j \in 1..Len(d)}

\* key in self._data
HasKey(d, key) == key \in KeysOf(d)

\* self._data[key]
ValueOf(d, key) == d[CHOOSE j \in 1..Len(d) : d[j].k = key].v

\* self._data.pop(key): the entry leaves, the others keep their order
Pop(d, key) == SelectSeq(d, LAMBDA e : e.k # key)

\* self._data[key] = value for a key that is not in the dict: appended last
SetItem(d, key, value) == Append(d, Entry(key, value))

\* popitem with last=True instead: the newest entry leaves
PopNewest(d) == SubSeq(d, 1, Len(d) - 1)

\* self._data.popitem(last=False): the first (oldest) entry leaves
PopOldest(d) == Tail(d)

\* ------------------------------------------------------- LRUCache
\* get that reads the value without the pop and re-insert
LRUGet_NoMove(d, key) ==
  IF ~HasKey(d, key)
    THEN [data |-> d, ret |-> 0 - 1]
    ELSE [data |-> d, ret |-> ValueOf(d, key)]

\* get that leaves a default entry behind for an absent key
LRUGet_InsertOnMiss(d, key) ==
  IF ~HasKey(d, key)
    THEN [data |-> SetItem(d, key, 0 - 1), ret |-> 0 - 1]
    ELSE [data |-> SetItem(Pop(d, key), key, ValueOf(d, key)),
          ret |-> ValueOf(d, key)]

\* LRUCache.get: -1 for an absent key, else pop and re-insert at the end.
LRUGet(d, key) ==
  IF ~HasKey(d, key)
    THEN [data |-> d, ret |-> 0 - 1]
    ELSE LET val == ValueOf(d, key)
         IN  [data |-> SetItem(Pop(d, key), key, val), ret |-> val]

\* put that overwrites the value of an existing key where it stands
LRUPut_KeepPlace(d, cap, key, value) ==
  LET d2 == IF HasKey(d, key)
              THEN [j \in 1..Len(d) |-> IF d[j].k = key THEN Entry(key, value) ELSE d[j]]
              ELSE SetItem(d, key, value)
  IN  IF Len(d2) > cap THEN PopOldest(d2) ELSE d2

\* LRUCache.put: pop an existing key, insert at the end, then drop the oldest
\* entry if the dict is longer than capacity.
LRUPut(d, cap, key, value) ==
  LET d1 == IF HasKey(d, key) THEN Pop(d, key) ELSE d
      d2 == SetItem(d1, key, value)
  IN  IF Len(d2) > cap THEN PopOldest(d2) ELSE d2

\* ------------------------------------------------------- Python lists
RECURSIVE SumSeq(_)
SumSeq(s) == IF s = <<>> THEN 0 ELSE Head(s) + SumSeq(Tail(s))

\* A slice bound clamped as list slicing does: negative bounds count from the end.
SliceBound(n, b) ==
  IF b < 0 THEN (IF b + n < 0 THEN 0 ELSE b + n)
           ELSE (IF b > n THEN n ELSE b)

\* array[left:right+1]
PySlice(arr, left, right) ==
  SubSeq(arr, SliceBound(Len(arr), left) + 1, SliceBound(Len(arr), right + 1))

\* array[index] = value is defined for -N <= index < N, else IndexError
IndexOk(arr, index) == (0 - Len(arr)) <= index /\ index < Len(arr)

\* the write landing on the first element whatever the index
PySetItem_First(arr, index, value) == [arr EXCEPT ![1] = value]

\* array[index] = value
PySetItem(arr, index, value) ==
  [arr EXCEPT ![(IF index < 0 THEN index + Len(arr) ELSE index) + 1] = value]

\* ------------------------------------------------------- without cache
RangeSumNoCache(arr, left, right) == SumSeq(PySlice(arr, left, right))

UpdateNoCache(arr, index, value) == PySetItem(arr, index, value)

\* ------------------------------------------------------- with cache
\* range_sum_with_cache: the store after the call, the value returned and
\* whether the sum was computed and put.
RangeSumWithCache(arr, left, right, d, cap) ==
  LET key == <<left, right>>
      g == LRUGet(d, key)
  IN  IF g.ret # 0 - 1
        THEN [data |-> g.data, ret |-> g.ret, computed |-> FALSE]
        ELSE LET res == SumSeq(PySlice(arr, left, right))
             IN  [data |-> LRUPut(g.data, cap, key, res), ret |-> res,
                  computed |-> TRUE]

\* the sweep's test with l < index in place of l <= index
ToDelete_OpenLeft(d, index) == {k \in KeysOf(d) : k[1] < index /\ index <= k[2]}

\* the keys update_with_cache collects in to_delete
ToDelete(d, index) == {k \in KeysOf(d) : k[1] <= index /\ index <= k[2]}

RECURSIVE Reverse(_)
Reverse(s) == IF s = <<>> THEN <<>> ELSE Append(Reverse(Tail(s)), Head(s))

\* the rebuild with the surviving entries in reverse order
Invalidate_Reversed(d, index) ==
  IF ToDelete(d, index) # {}
    THEN Reverse(SelectSeq(d, LAMBDA e : e.k \notin ToDelete(d, index)))
    ELSE d

\* an update that rebuilds nothing
Invalidate_Nothing(d, index) == d

\* the invalidation of update_with_cache: the dict rebuilt without to_delete
Invalidate(d, index) ==
  IF ToDelete(d, index) # {}
    THEN SelectSeq(d, LAMBDA e : e.k \notin ToDelete(d, index))
    ELSE d

\* ------------------------------------------------------- the calls
\* What is remembered of a call: its name, the range of a rangeSum or put
\* (NoKey otherwise), the index of an update, whether the key was in the store
\* when the call began, whether rangeSum computed the sum and called put, how
\* many keys left the store, and, when the call evicted the key of promo, how
\* many keys had been in the store beside it at its get.
Call(op, key, idx, hit, computed, gone, outlasted) ==
  [op |-> op, key |-> key, idx |-> idx, hit |-> hit, computed |-> computed,
   gone |-> gone, outlasted |-> outlasted]

Gone(d, e) == Cardinality(KeysOf(d) \ KeysOf(e))

NoPromo == [key |-> NoKey, peers |-> {}, n |-> 0]

\* promo after a get of key on store d
Promote(d, key) ==
  IF HasKey(d, key)
    THEN [key |-> key, peers |-> KeysOf(d) \ {key},
          n |-> Cardinality(KeysOf(d) \ {key})]
    ELSE NoPromo

\* Two threads share the cache and the array: one calls
\* range_sum_with_cache, the other update_with_cache.  Of the reader are kept
\* the statement it has reached, the key and the value (val of get, res of
\* the sum) of the call in progress, whether the sum it last returned differed
\* from the sum of the array at that moment, and whether its last call raised.
\* Of the updater are kept the statement it has reached, the index it wrote,
\* to_delete, the iterator over cache._data.items() (the key it yields next
\* and whether the dict was mutated since the iterator was made), new_data,
\* and whether its last call raised.
IdleThreads ==
  [reader |-> [pc |-> "idle", key |-> NoKey, res |-> 0, stale |-> FALSE,
               raised |-> FALSE],
   updater |-> [pc |-> "idle", idx |-> 0, toDelete |-> {}, cur |-> NoKey,
                mutated |-> FALSE, newData |-> <<>>, raised |-> FALSE]]

\* every call runs alone
NoThreads == serial = TRUE /\ thr = IdleThreads

(***************************************************************************)
(* src/task-2.py: SlidingWindowRateLimiter.  Timestamps are whole seconds, *)
(* which float() and the float arithmetic of the code represent exactly.   *)
(***************************************************************************)
MaxTime == 3        \* the clock runs from 0 to MaxTime
MaxWindow == 2      \* window_size is drawn from 0..MaxWindow
MaxRequests == 2    \* max_requests is drawn from 0..MaxRequests
MaxRecords == 3     \* accepted messages per user that are remembered

Users == {"u1", "u2"}
WindowSizes == 0..MaxWindow
RequestLimits == 0..MaxRequests

NoHistory == [u \in {} |-> <<>>]

\* self.history.get(user_id), None as the empty sequence
HistOf(h, user) == IF user \in DOMAIN h THEN h[user] ELSE <<>>

\* self.history.pop(user_id, None)
HistPop(h, user) == [u \in DOMAIN h \ {user} |-> h[u]]

\* self.history[user_id] = dq
HistSet(h, user, dq) ==
  [u \in DOMAIN h \cup {user} |-> IF u = user THEN dq ELSE h[u]]

\* while dq and dq[0] <= window_start: dq.popleft(), popping one second early
RECURSIVE PopLeftWhile_Early(_, _)
PopLeftWhile_Early(dq, window_start) ==
  IF dq # <<>> /\ Head(dq) <= window_start + 1
    THEN PopLeftWhile_Early(Tail(dq), window_start)
    ELSE dq

\* while dq and dq[0] <= window_start: dq.popleft()
RECURSIVE PopLeftWhile(_, _)
PopLeftWhile(dq, window_start) ==
  IF dq # <<>> /\ Head(dq) <= window_start
    THEN PopLeftWhile(Tail(dq), window_start)
    ELSE dq

\* _cleanup_window(user_id, current_time)
CleanupWindow(h, lim, user, current_time) ==
  IF user \notin DOMAIN h
    THEN h
    ELSE LET window_start == current_time - lim.window_size
             dq == PopLeftWhile(h[user], window_start)
         IN  IF dq = <<>> THEN HistPop(h, user) ELSE HistSet(h, user, dq)

\* can_send_message(user_id) at clock value t
CanSendMessage(h, lim, user, t) ==
  LET h1 == CleanupWindow(h, lim, user, t)
  IN  [history |-> h1,
       ret |-> IF user \notin DOMAIN h1
                 THEN TRUE
                 ELSE Len(h1[user]) < lim.max_requests]

\* record_message(user_id) at clock value t
RecordMessage(h, lim, user, t) ==
  LET h1 == CleanupWindow(h, lim, user, t)
      h2 == IF user \notin DOMAIN h1 THEN HistSet(h1, user, <<>>) ELSE h1
  IN  IF Len(h2[user]) < lim.max_requests
        THEN [history |-> HistSet(h2, user, Append(h2[user], t)), ret |-> TRUE]
        ELSE [history |-> h2, ret |-> FALSE]

\* max(0.0, wait)
Max0(wait) == IF wait > 0 THEN wait ELSE 0

\* time_until_next_allowed(user_id) at clock value t
TimeUntilNextAllowed(h, lim, user, t) ==
  LET h1 == CleanupWindow(h, lim, user, t)
  IN  [history |-> h1,
       ret |-> IF user \notin DOMAIN h1 \/ Len(h1[user]) < lim.max_requests
                 THEN 0
                 ELSE Max0((h1[user][1] + lim.window_size) - t)]

\* the last call made at the current clock value, and what it returned
NoCall == [op |-> "none", user |-> "", ok |-> FALSE, wait |-> 0]

\* no limiter constructed yet
NoLimiter ==
  /\ limiter = [made |-> FALSE, window_size |-> 0, max_requests |-> 0]
  /\ now = 0
  /\ history = NoHistory
  /\ accepted = [u \in Users |-> <<>>]
  /\ lret = NoCall

\* the array and its copy, before LRUCache(...)
InitCache ==
  /\ pc = "new"
  /\ capacity = 0
  /\ data = <<>>
  /\ array \in [1..ArrLen -> Values]
  /\ arrayNC = array
  /\ ret = NoRet
  /\ retNC = NoRet
  /\ last = Call("none", NoKey, 0, FALSE, FALSE, 0, 0)
  /\ promo = NoPromo
  /\ fresh = 0 - 1

Init ==
  /\ InitCache
  /\ NoThreads
  /\ NoLimiter

\* LRUCache(capacity=c)
NewCache(c) ==
  /\ pc = "new"
  /\ pc' = "ready"
  /\ capacity' = c
  /\ data' = <<>>
  /\ last' = Call("new", NoKey, 0, FALSE, FALSE, 0, 0)
  /\ fresh' = 0
  /\ UNCHANGED <<array, arrayNC, ret, retNC, promo>>
  /\ UNCHANGED <<threadVars, limiterVars>>

\* cache.get(key)
Get(key) ==
  /\ pc = "ready"
  /\ data' = LRUGet(data, key).data
  /\ ret' = Value(LRUGet(data, key).ret)
  /\ retNC' = NoRet
  /\ last' = Call("get", NoKey, 0, HasKey(data, key), FALSE, Gone(data, data'), 0)
  /\ promo' = Promote(data, key)
  /\ fresh' = 0 - 1
  /\ UNCHANGED <<pc, capacity, array, arrayNC>>
  /\ UNCHANGED <<threadVars, limiterVars>>

\* cache.put(key, value)
Put(key, value) ==
  LET isNew == ~HasKey(data, key)
      tracked == promo.key # NoKey /\ isNew
      evicts == tracked /\ promo.key \notin KeysOf(data')
  IN  /\ pc = "ready"
      /\ data' = LRUPut(data, capacity, key, value)
      /\ ret' = Void
      /\ retNC' = NoRet
      /\ last' = Call("put", key, 0, ~isNew, FALSE, Gone(data, data'),
                      IF evicts THEN promo.n ELSE 0)
      /\ promo' = IF tracked /\ ~evicts
                    THEN [promo EXCEPT !.peers = @ \cap KeysOf(data')]
                    ELSE NoPromo
      /\ fresh' = IF isNew /\ fresh \in 0..capacity THEN fresh + 1 ELSE 0 - 1
      /\ UNCHANGED <<pc, capacity, array, arrayNC>>
      /\ UNCHANGED <<threadVars, limiterVars>>

\* range_sum_with_cache(array, left, right, cache) beside
\* range_sum_no_cache(arrayNC, left, right)
RangeSum(left, right) ==
  LET r == RangeSumWithCache(array, left, right, data, capacity)
  IN  /\ pc = "ready"
      /\ data' = r.data
      /\ ret' = Value(r.ret)
      /\ retNC' = Value(RangeSumNoCache(arrayNC, left, right))
      /\ last' = Call("rangeSum", <<left, right>>, 0, HasKey(data, <<left, right>>),
                      r.computed, Gone(data, data'), 0)
      /\ promo' = IF r.computed THEN NoPromo ELSE Promote(data, <<left, right>>)
      /\ fresh' = 0 - 1
      /\ UNCHANGED <<pc, capacity, array, arrayNC>>
      /\ UNCHANGED <<threadVars, limiterVars>>

\* update_with_cache(array, index, value, cache) beside
\* update_no_cache(arrayNC, index, value)
Update(index, value) ==
  /\ pc = "ready"
  /\ IF IndexOk(array, index)
       THEN /\ array' = PySetItem(array, index, value)
            /\ data' = Invalidate(data, index)
            /\ ret' = Void
       ELSE /\ UNCHANGED <<array, data>>
            /\ ret' = IndexError
  /\ IF IndexOk(arrayNC, index)
       THEN /\ arrayNC' = UpdateNoCache(arrayNC, index, value)
            /\ retNC' = Void
       ELSE /\ UNCHANGED arrayNC
            /\ retNC' = IndexError
  /\ last' = Call("update", NoKey, index, FALSE, FALSE, Gone(data, data'), 0)
  /\ promo' = NoPromo
  /\ fresh' = 0 - 1
  /\ UNCHANGED <<pc, capacity>>
  /\ UNCHANGED <<threadVars, limiterVars>>

Next ==
  \/ \E c \in Capacities : NewCache(c)
  \/ \E key \in Keys : Get(key)
  \/ \E key \in Keys, value \in Values : Put(key, value)
  \/ \E left \in Lefts, right \in Rights : RangeSum(left, right)
  \/ \E index \in Indices, value \in Values : Update(index, value)

Spec == Init /\ [][Next]_vars

\* Only the two paths of run_sequence_with_cache touch the store.
NextPaths ==
  \/ \E c \in Capacities : NewCache(c)
  \/ \E left \in Lefts, right \in Rights : RangeSum(left, right)
  \/ \E index \in Indices, value \in Values : Update(index, value)

SpecPaths == Init /\ [][NextPaths]_vars

\* Only the store's own interface is called.
NextStore ==
  \/ \E c \in Capacities : NewCache(c)
  \/ \E key \in Keys : Get(key)
  \/ \E key \in Keys, value \in Values : Put(key, value)

\* The store never reads the array: one array stands for all.
InitStore == Init /\ array = [i \in 1..ArrLen |-> 1]

SpecStore == InitStore /\ [][NextStore]_vars

\* The sweep reads only the index and the keys: the array stays all ones, and
\* the store has room for one entry more than MaxCapacity.
NextSweep ==
  \/ \E c \in Capacities \cup {MaxCapacity + 1} : NewCache(c)
  \/ \E left \in Lefts, right \in Rights : RangeSum(left, right)
  \/ \E index \in Indices : Update(index, 1)

SpecSweep == InitStore /\ [][NextSweep]_vars

\* Only calls with 0 <= left <= right < N and 0 <= index < N are made.
NextValid ==
  \/ \E c \in Capacities : NewCache(c)
  \/ \E left \in Lefts, right \in Lefts :
       left <= right /\ RangeSum(left, right)
  \/ \E index \in Lefts, value \in Values : Update(index, value)

SpecValid == Init /\ [][NextValid]_vars

\* The worked scenario: ten ones behind a cache of capacity 2, with the
\* scenario's three ranges and its update among the calls made.
Ones == [i \in 1..10 |-> 1]

InitScenario ==
  /\ pc = "new"
  /\ capacity = 0
  /\ data = <<>>
  /\ array = Ones
  /\ arrayNC = Ones
  /\ ret = NoRet
  /\ retNC = NoRet
  /\ last = Call("none", NoKey, 0, FALSE, FALSE, 0, 0)
  /\ promo = NoPromo
  /\ fresh = 0 - 1
  /\ NoThreads
  /\ NoLimiter

NextScenario ==
  \/ NewCache(2)
  \/ \E key \in {<<0, 4>>, <<5, 9>>, <<0, 2>>, <<3, 7>>} : RangeSum(key[1], key[2])
  \/ \E index \in {1, 6}, value \in {1, 100} : Update(index, value)

SpecScenario == InitScenario /\ [][NextScenario]_vars

\* ------------------------------------------- two threads, one cache
\* a lock that lets a call begin while another is in progress
MayBegin_NoLock(other) == TRUE

\* With the lock a call begins only when no other call is in progress.
MayBegin(other) == serial => thr[other].pc = "idle"

Quiescent == thr.reader.pc = "idle" /\ thr.updater.pc = "idle"

\* sum(array[left:right+1]) as the array stands now
CurrentSum(key) == SumSeq(PySlice(array, key[1], key[2]))

\* self._data[key] = value: a key in the dict keeps its place, a new key is
\* appended last
StoreItem(d, key, value) ==
  IF HasKey(d, key)
    THEN [j \in 1..Len(d) |-> IF d[j].k = key THEN Entry(key, value) ELSE d[j]]
    ELSE Append(d, Entry(key, value))

\* the key that follows key in the dict, NoKey after the last
NextKey(d, key) ==
  LET j == CHOOSE i \in 1..Len(d) : d[i].k = key
  IN  IF j < Len(d) THEN d[j + 1].k ELSE NoKey

\* An OrderedDict counts its insertions and removals, and an iterator made
\* before one of them raises at its next item.
Mutated(u) == IF u.pc = "iterating" THEN [u EXCEPT !.mutated = TRUE] ELSE u

\* the reader's call ends: it returns value (kept in res), or raises
Returned(r, value) ==
  [pc |-> "idle", key |-> NoKey, res |-> value,
   stale |-> value # CurrentSum(r.key), raised |-> FALSE]

Raised(r) ==
  [pc |-> "idle", key |-> NoKey, res |-> 0, stale |-> FALSE, raised |-> TRUE]

\* range_sum_with_cache calls cache.get(key); get: if key not in self._data
RGetTest(left, right) ==
  LET key == <<left, right>>
  IN  /\ pc = "ready"
      /\ thr.reader.pc = "idle"
      /\ MayBegin("updater")
      /\ thr' = [thr EXCEPT !.reader =
                   [pc |-> IF HasKey(data, key) THEN "getPop" ELSE "missed",
                    key |-> key, res |-> 0, stale |-> FALSE,
                    raised |-> FALSE]]
      /\ UNCHANGED <<cacheVars, serial, limiterVars>>

\* get: val = self._data.pop(key), KeyError when the key has gone
RGetPop ==
  /\ thr.reader.pc = "getPop"
  /\ IF HasKey(data, thr.reader.key)
       THEN /\ data' = Pop(data, thr.reader.key)
            /\ thr' = [reader |-> [thr.reader EXCEPT
                                     !.pc = "getInsert",
                                     !.res = ValueOf(data, thr.reader.key)],
                       updater |-> Mutated(thr.updater)]
       ELSE /\ data' = data
            /\ thr' = [thr EXCEPT !.reader = Raised(thr.reader)]
  /\ UNCHANGED <<pc, capacity, array, arrayNC, ret, retNC, last, promo, fresh>>
  /\ UNCHANGED <<serial, limiterVars>>

\* get: self._data[key] = val; return val; range_sum_with_cache returns it
\* unless it is -1
RGetInsert ==
  /\ thr.reader.pc = "getInsert"
  /\ data' = StoreItem(data, thr.reader.key, thr.reader.res)
  /\ thr' = [reader |-> IF thr.reader.res # 0 - 1
                          THEN Returned(thr.reader, thr.reader.res)
                          ELSE [thr.reader EXCEPT !.pc = "missed", !.res = 0],
             updater |-> IF HasKey(data, thr.reader.key)
                           THEN thr.updater
                           ELSE Mutated(thr.updater)]
  /\ UNCHANGED <<pc, capacity, array, arrayNC, ret, retNC, last, promo, fresh>>
  /\ UNCHANGED <<serial, limiterVars>>

\* range_sum_with_cache: res = sum(array[left:right+1])
RSum ==
  /\ thr.reader.pc = "missed"
  /\ thr' = [thr EXCEPT !.reader.pc = "putTest",
                        !.reader.res = CurrentSum(thr.reader.key)]
  /\ UNCHANGED <<cacheVars, serial, limiterVars>>

\* range_sum_with_cache calls cache.put(key, res); put: if key in self._data
RPutTest ==
  /\ thr.reader.pc = "putTest"
  /\ thr' = [thr EXCEPT !.reader.pc =
               IF HasKey(data, thr.reader.key) THEN "putPop" ELSE "putInsert"]
  /\ UNCHANGED <<cacheVars, serial, limiterVars>>

\* put: self._data.pop(key), KeyError when the key has gone
RPutPop ==
  /\ thr.reader.pc = "putPop"
  /\ IF HasKey(data, thr.reader.key)
       THEN /\ data' = Pop(data, thr.reader.key)
            /\ thr' = [reader |-> [thr.reader EXCEPT !.pc = "putInsert"],
                       updater |-> Mutated(thr.updater)]
       ELSE /\ data' = data
            /\ thr' = [thr EXCEPT !.reader = Raised(thr.reader)]
  /\ UNCHANGED <<pc, capacity, array, arrayNC, ret, retNC, last, promo, fresh>>
  /\ UNCHANGED <<serial, limiterVars>>

\* put: self._data[key] = value
RPutInsert ==
  /\ thr.reader.pc = "putInsert"
  /\ data' = StoreItem(data, thr.reader.key, thr.reader.res)
  /\ thr' = [reader |-> [thr.reader EXCEPT !.pc = "putLen"],
             updater |-> IF HasKey(data, thr.reader.key)
                           THEN thr.updater
                           ELSE Mutated(thr.updater)]
  /\ UNCHANGED <<pc, capacity, array, arrayNC, ret, retNC, last, promo, fresh>>
  /\ UNCHANGED <<serial, limiterVars>>

\* put: if len(self._data) > self.capacity; when it is not, put returns and
\* range_sum_with_cache returns res
RPutLen ==
  /\ thr.reader.pc = "putLen"
  /\ thr' = [thr EXCEPT !.reader =
               IF Len(data) > capacity
                 THEN [thr.reader EXCEPT !.pc = "putEvict"]
                 ELSE Returned(thr.reader, thr.reader.res)]
  /\ UNCHANGED <<cacheVars, serial, limiterVars>>

\* put: self._data.popitem(last=False), KeyError on an empty dict; then
\* range_sum_with_cache returns res
RPutEvict ==
  /\ thr.reader.pc = "putEvict"
  /\ IF data # <<>>
       THEN /\ data' = PopOldest(data)
            /\ thr' = [reader |-> Returned(thr.reader, thr.reader.res),
                       updater |-> Mutated(thr.updater)]
       ELSE /\ data' = data
            /\ thr' = [thr EXCEPT !.reader = Raised(thr.reader)]
  /\ UNCHANGED <<pc, capacity, array, arrayNC, ret, retNC, last, promo, fresh>>
  /\ UNCHANGED <<serial, limiterVars>>

\* update_with_cache: array[index] = value
UWrite(index, value) ==
  /\ pc = "ready"
  /\ thr.updater.pc = "idle"
  /\ MayBegin("reader")
  /\ IndexOk(array, index)
  /\ array' = PySetItem(array, index, value)
  /\ thr' = [thr EXCEPT !.updater =
               [pc |-> "written", idx |-> index, toDelete |-> {},
                cur |-> NoKey, mutated |-> FALSE, newData |-> <<>>,
                raised |-> FALSE]]
  /\ UNCHANGED <<pc, capacity, data, arrayNC, ret, retNC, last, promo, fresh>>
  /\ UNCHANGED <<serial, limiterVars>>

\* update_with_cache: the pass over the list cache.keys() that fills to_delete
UCollect ==
  /\ thr.updater.pc = "written"
  /\ thr' = [thr EXCEPT !.updater.pc = "collected",
                        !.updater.toDelete = ToDelete(data, thr.updater.idx)]
  /\ UNCHANGED <<cacheVars, serial, limiterVars>>

\* update_with_cache: if to_delete, the generator is made over
\* cache._data.items(): the iterator stands at the first key of the dict.
\* With nothing to delete the call returns.
UIterate ==
  /\ thr.updater.pc = "collected"
  /\ thr' = [thr EXCEPT !.updater =
               IF thr.updater.toDelete = {}
                 THEN [@ EXCEPT !.pc = "idle"]
                 ELSE [@ EXCEPT !.pc = IF data = <<>> THEN "built"
                                                      ELSE "iterating",
                                !.cur = IF data = <<>> THEN NoKey
                                                       ELSE data[1].k,
                                !.mutated = FALSE,
                                !.newData = <<>>]]
  /\ UNCHANGED <<cacheVars, serial, limiterVars>>

\* the generator's next item: RuntimeError when the dict was mutated since
\* the iterator was made; else the item at the iterator goes to new_data
\* unless its key is in to_delete, and the iterator moves on.  After the last
\* item the iterator looks at the dict no more.
UNextItem ==
  LET u == thr.updater
  IN  /\ u.pc = "iterating"
      /\ thr' = [thr EXCEPT !.updater =
                   IF u.mutated
                     THEN [u EXCEPT !.pc = "idle", !.toDelete = {},
                                    !.cur = NoKey, !.mutated = FALSE,
                                    !.newData = <<>>, !.raised = TRUE]
                     ELSE [u EXCEPT
                             !.pc = IF NextKey(data, u.cur) = NoKey
                                      THEN "built" ELSE "iterating",
                             !.cur = NextKey(data, u.cur),
                             !.newData =
                               IF u.cur \in u.toDelete
                                 THEN u.newData
                                 ELSE Append(u.newData,
                                             Entry(u.cur, ValueOf(data, u.cur)))]]
      /\ UNCHANGED <<cacheVars, serial, limiterVars>>

\* update_with_cache: cache._data = new_data; return
UAssign ==
  /\ thr.updater.pc = "built"
  /\ data' = thr.updater.newData
  /\ thr' = [thr EXCEPT !.updater =
               [@ EXCEPT !.pc = "idle", !.toDelete = {}, !.cur = NoKey,
                         !.mutated = FALSE, !.newData = <<>>]]
  /\ UNCHANGED <<pc, capacity, array, arrayNC, ret, retNC, last, promo, fresh>>
  /\ UNCHANGED <<serial, limiterVars>>

\* the two threads are started with the lock or without it
InitThreads ==
  /\ InitCache
  /\ serial \in BOOLEAN
  /\ thr = IdleThreads
  /\ NoLimiter

\* The two threads work on the first two cells of the array: the reader asks
\* for the sums of the ranges (0, 0) and (0, 1), the updater writes index 0
\* or 1, so that a written index lies in both ranges or in one of them.
ThreadCells == {0, 1}

\* A thread may be switched out between any two of the steps.
NextThreads ==
  \/ \E c \in Capacities : NewCache(c)
  \/ \E right \in ThreadCells : RGetTest(0, right)
  \/ RGetPop
  \/ RGetInsert
  \/ RSum
  \/ RPutTest
  \/ RPutPop
  \/ RPutInsert
  \/ RPutLen
  \/ RPutEvict
  \/ \E index \in ThreadCells, value \in Values : UWrite(index, value)
  \/ UCollect
  \/ UIterate
  \/ UNextItem
  \/ UAssign

SpecThreads == InitThreads /\ [][NextThreads]_vars

\* SlidingWindowRateLimiter(window_size=w, max_requests=m)
NewLimiter(w, m) ==
  /\ ~limiter.made
  /\ limiter' = [made |-> TRUE, window_size |-> w, max_requests |-> m]
  /\ history' = NoHistory
  /\ UNCHANGED <<now, accepted, lret>>
  /\ UNCHANGED <<cacheVars, threadVars>>

\* time.time() never goes back
Tick ==
  /\ now < MaxTime
  /\ now' = now + 1
  /\ lret' = NoCall
  /\ UNCHANGED <<limiter, history, accepted>>
  /\ UNCHANGED <<cacheVars, threadVars>>

\* limiter.can_send_message(user)
CanSend(user) ==
  LET r == CanSendMessage(history, limiter, user, now)
  IN  /\ limiter.made
      /\ history' = r.history
      /\ lret' = [op |-> "canSend", user |-> user, ok |-> r.ret, wait |-> 0]
      /\ UNCHANGED <<limiter, now, accepted>>
      /\ UNCHANGED <<cacheVars, threadVars>>

\* limiter.record_message(user)
Record(user) ==
  LET r == RecordMessage(history, limiter, user, now)
  IN  /\ limiter.made
      /\ Len(accepted[user]) < MaxRecords
      /\ history' = r.history
      /\ accepted' = IF r.ret
                       THEN [accepted EXCEPT ![user] = Append(@, now)]
                       ELSE accepted
      /\ lret' = [op |-> "record", user |-> user, ok |-> r.ret, wait |-> 0]
      /\ UNCHANGED <<limiter, now>>
      /\ UNCHANGED <<cacheVars, threadVars>>

\* limiter.time_until_next_allowed(user)
TimeUntil(user) ==
  LET r == TimeUntilNextAllowed(history, limiter, user, now)
  IN  /\ limiter.made
      /\ history' = r.history
      /\ lret' = [op |-> "timeUntil", user |-> user, ok |-> FALSE,
                   wait |-> r.ret]
      /\ UNCHANGED <<limiter, now, accepted>>
      /\ UNCHANGED <<cacheVars, threadVars>>

NextLimiter ==
  \/ \E w \in WindowSizes, m \in RequestLimits : NewLimiter(w, m)
  \/ Tick
  \/ \E user \in Users : CanSend(user)
  \/ \E user \in Users : Record(user)
  \/ \E user \in Users : TimeUntil(user)

SpecLimiter == InitStore /\ [][NextLimiter]_vars

\* ------------------------------------------------------- properties
\* 0 <= left <= right < N
ValidRange(arr, left, right) == 0 <= left /\ left <= right /\ right < Len(arr)

\* 0 <= index < N
ValidIndex(arr, index) == 0 <= index /\ index < Len(arr)

\* C1: every rangeSum returns the same value through the cache as on the
\* uncached copy of the array, whatever calls came before.
C1_CachedEqualsUncached == last.op = "rangeSum" => ret = retNC

\* C2: an update(i, v) that completes removes from the store exactly the keys
\* (l, r) with l <= i <= r; every other key stays, with the value it had.
C2_ExactInvalidation ==
  [][(last'.op = "update" /\ ret' = Void) =>
       /\ KeysOf(data') =
            {k \in KeysOf(data) : ~(k[1] <= last'.idx /\ last'.idx <= k[2])}
       /\ \A k \in KeysOf(data') : ValueOf(data', k) = ValueOf(data, k)]_vars

\* C2 witness: an update has completed, swept at least one key and left another.
C2_Witness ==
  last.op = "update" /\ ret = Void /\ last.gone >= 1 /\ Len(data) >= 1

\* C3: a constructed cache never holds more entries than its capacity.
C3_SizeAtMostCapacity == pc = "ready" => Len(data) <= capacity

\* C4: a put of a key that is not in a store holding capacity entries leaves
\* the store with the new entry as most recent and without its least recent
\* entry, all others kept in order; after capacity distinct keys were put into
\* the new store it holds capacity entries, so the next distinct key drives
\* out the first one.
C4_EvictsLeastRecent ==
  [][(last'.op = "put" /\ ~last'.hit) =>
       /\ (fresh >= 0 /\ fresh = capacity) => Len(data) = capacity
       /\ Len(data) = capacity =>
            \E value \in Values :
               data' = Tail(Append(data, Entry(last'.key, value)))]_vars

\* C4 witness: capacity + 1 distinct keys went into a new store of capacity
\* at least 2, and the last put evicted one key.
C4_Witness ==
  fresh = capacity + 1 /\ capacity >= 2 /\ last.op = "put" /\ last.gone = 1

\* C5: a get that hits leaves its key most recent, and while only new keys are
\* put afterwards the key is evicted only after every key that was in the
\* store beside it at the get.
C5_PromotedOutlastsPeers ==
  [][/\ (last'.op = "get" /\ last'.hit) =>
          (promo'.key \in KeysOf(data) /\ data'[Len(data')].k = promo'.key)
     /\ (promo.key # NoKey /\ promo.key \notin KeysOf(data')) =>
          promo.peers \cap KeysOf(data') = {}]_vars

\* C5 witness: a put has evicted the key of a get that hit, which had at least
\* one other key beside it in the store at the get.
C5_Witness == last.op = "put" /\ last.outlasted >= 1

\* C6: with a capacity of at least 1, a rangeSum(l, r) right after a
\* rangeSum(l, r) returns the same value, computes no sum, calls no put and
\* leaves the array as it is.
C6_SecondCallHits ==
  [][\A l \in Lefts, r \in Rights :
       (capacity >= 1 /\ last.op = "rangeSum" /\ last.key = <<l, r>> /\ RangeSum(l, r)) =>
         (ret' = ret /\ ~last'.computed /\ array' = array)]_vars

\* C7: update with an index outside [0, N) reports an error and changes
\* neither the array nor the store.
C7_BadIndexRejected ==
  [][\A i \in Indices, v \in Values :
       (Update(i, v) /\ ~ValidIndex(array, i)) =>
         (ret' = IndexError /\ array' = array /\ data' = data)]_vars

\* C8: rangeSum with left > right or a bound outside [0, N) returns no value
\* and leaves the store as it is.
C8_BadRangeRejected ==
  [][\A l \in Lefts, r \in Rights :
       (RangeSum(l, r) /\ ~ValidRange(array, l, r)) =>
         (ret'.kind # "value" /\ data' = data)]_vars

\* C9: no cache exists with a capacity below 1.
C9_CapacityAtLeastOne == pc = "ready" => capacity >= 1

\* C10: get of a key that is not in the store returns -1 and leaves the
\* store's keys, values and order as they were.
C10_MissChangesNothing ==
  [][(last'.op = "get" /\ ~last'.hit) =>
       (ret' = Value(0 - 1) /\ data' = data)]_vars

\* C10 witness: a get has missed on a store that holds two entries.
C10_Witness == last.op = "get" /\ ~last.hit /\ Len(data) >= 2

\* C11: a put of a key that is in the store gives it the new value and makes
\* it most recent; no key leaves, the size stays, and the other entries keep
\* their values and their order.
C11_OverwritePromotes ==
  [][(last'.op = "put" /\ last'.hit) =>
       /\ KeysOf(data') = KeysOf(data)
       /\ Len(data') = Len(data)
       /\ data'[Len(data')].k = last'.key
       /\ \A value \in Values :
            Put(last'.key, value) => data'[Len(data')].v = value
       /\ SelectSeq(data', LAMBDA e : e.k # last'.key)
            = SelectSeq(data, LAMBDA e : e.k # last'.key)]_vars

\* C11 witness: a put has found its key in a store of two entries.
C11_Witness == last.op = "put" /\ last.hit /\ Len(data) >= 2

\* C12: an update that completes leaves the surviving entries in the order
\* they had: the store after it is the store before it with the swept
\* entries taken out, so the oldest survivor is still the first to be evicted.
C12_SweepKeepsOrder ==
  [][(last'.op = "update" /\ ret' = Void) =>
       data' = SelectSeq(data, LAMBDA e : e.k \in KeysOf(data'))]_vars

\* C12 witness: an update has swept a key and left two others.
C12_Witness ==
  last.op = "update" /\ ret = Void /\ last.gone >= 1 /\ Len(data) >= 2

\* C15: rangeSum leaves the array as it is; update with 0 <= i < N sets
\* element i to v and leaves the length and every other element as they were.
C15_ArrayFrame ==
  [][/\ last'.op = "rangeSum" => array' = array
     /\ (last'.op = "update" /\ ValidIndex(array, last'.idx)) =>
          /\ Len(array') = Len(array)
          /\ \A j \in 1..Len(array) : j # last'.idx + 1 => array'[j] = array[j]
          /\ \A v \in Values :
               Update(last'.idx, v) => array'[last'.idx + 1] = v]_vars

\* C15 witness: an update with a valid index has written a value that the
\* other element does not hold, after a rangeSum was cached.
C15_Witness ==
  /\ last.op = "update" /\ ret = Void /\ ValidIndex(array, last.idx)
  /\ \E j \in 1..Len(array) : array[j] # array[last.idx + 1]
  /\ Len(data) >= 1

\* C16: after any calls with valid ranges and valid indices, every entry
\* (l, r) -> s of the store has s = array[l] + ... + array[r] of the array
\* as it is now.
C16_Coherent ==
  \A j \in 1..Len(data) :
    data[j].v = SumSeq([i \in 1..(data[j].k[2] - data[j].k[1] + 1) |->
                          array[data[j].k[1] + i]])

\* C16 witness: an update has swept a key and another entry is still cached.
C16_Witness ==
  /\ last.op = "update" /\ ret = Void /\ last.gone >= 1
  /\ \E j \in 1..Len(data) : last.idx < data[j].k[1] \/ data[j].k[2] < last.idx

\* C13: on ten ones with capacity 2, rangeSum(0,4), rangeSum(5,9),
\* rangeSum(0,2), update(1,100), rangeSum(5,9) return 5, 5, 3 and 5; the third
\* query evicts (0,4) and leaves (5,9) and (0,2), the update removes only
\* (0,2), and the last query is a hit. Each line is one step of the sequence,
\* taken from the state the steps before it lead to.
C13_Scenario ==
  [][LET E04 == Entry(<<0, 4>>, 5)
         E59 == Entry(<<5, 9>>, 5)
         E02 == Entry(<<0, 2>>, 3)
         Written == [Ones EXCEPT ![2] = 100]
         Query(key) == last'.op = "rangeSum" /\ last'.key = key
     IN  capacity = 2 =>
           /\ (array = Ones /\ data = <<>> /\ Query(<<0, 4>>)) =>
                (ret' = Value(5) /\ last'.computed /\ data' = <<E04>>)
           /\ (array = Ones /\ data = <<E04>> /\ Query(<<5, 9>>)) =>
                (ret' = Value(5) /\ last'.computed /\ data' = <<E04, E59>>)
           /\ (array = Ones /\ data = <<E04, E59>> /\ Query(<<0, 2>>)) =>
                (ret' = Value(3) /\ last'.computed /\ data' = <<E59, E02>>)
           /\ (array = Ones /\ data = <<E59, E02>> /\ last'.op = "update"
                 /\ last'.idx = 1 /\ array'[2] = 100) =>
                (ret' = Void /\ array' = Written /\ data' = <<E59>>)
           /\ (array = Written /\ data = <<E59>> /\ Query(<<5, 9>>)) =>
                (ret' = Value(5) /\ ~last'.computed /\ data' = <<E59>>
                   /\ array' = Written)]_vars

\* C13 witness: the state the sequence ends in, its last query a hit on (5,9).
C13_Witness ==
  /\ capacity = 2 /\ array = [Ones EXCEPT ![2] = 100]
  /\ data = <<Entry(<<5, 9>>, 5)>>
  /\ last.op = "rangeSum" /\ last.key = <<5, 9>> /\ last.hit /\ ~last.computed
  /\ ret = Value(5)

\* the timestamps of dq that lie in the half-open window (t - window_size, t]
InWindow(dq, t) ==
  {i \in 1..Len(dq) : t - limiter.window_size < dq[i] /\ dq[i] <= t}

\* C17: with a clock that never goes back, for every user and every time t
\* at most max_requests of the messages record_message accepted for that
\* user carry a timestamp in (t - window_size, t], whatever calls were made
\* for whatever users.  No timestamp is later than MaxTime, so a window
\* that ends after MaxTime holds no more than the one that ends at MaxTime.
C17_WindowLimit ==
  \A u \in Users : \A t \in 0..MaxTime :
    Cardinality(InWindow(accepted[u], t)) <= limiter.max_requests

\* a user filled the window, and was accepted again once it had slid
C17_Witness ==
  \E u \in Users :
    /\ lret.op = "record" /\ lret.user = u /\ lret.ok
    /\ limiter.max_requests >= 1
    /\ limiter.window_size >= 2
    /\ Len(accepted[u]) > limiter.max_requests
    /\ Cardinality(InWindow(accepted[u], now)) = limiter.max_requests

\* C18: after _cleanup_window(user_id, current_time) the user's history
\* holds exactly the recorded timestamps of the closed window
\* [current_time - window_size, current_time], the one equal to
\* current_time - window_size included.  can_send_message and
\* time_until_next_allowed do nothing to the history but that clean-up.
C18_ClosedWindowKept ==
  \A u \in Users :
    (lret.op \in {"canSend", "timeUntil"} /\ lret.user = u) =>
      HistOf(history, u) =
        SelectSeq(accepted[u],
                  LAMBDA ts : now - limiter.window_size <= ts /\ ts <= now)

\* C19: when time_until_next_allowed(user) has returned w, record_message
\* for that user at now + w returns True, at every time from now up to but
\* not including now + w it returns False, and w = 0 exactly when
\* can_send_message(user) at now returns True.
C19_WaitIsExact ==
  \A u \in Users :
    (lret.op = "timeUntil" /\ lret.user = u) =>
      /\ RecordMessage(history, limiter, u, now + lret.wait).ret
      /\ \A t \in now..(now + lret.wait - 1) :
           ~RecordMessage(history, limiter, u, t).ret
      /\ lret.wait = 0 <=> CanSendMessage(history, limiter, u, now).ret

\* C20: whatever the configuration and the history, can_send_message(user)
\* returns True exactly when record_message(user) at the same clock value
\* returns True; a user with no history is allowed by both; and
\* can_send_message adds no timestamp to the history.
C20_CanSendIffRecord ==
  \A u \in Users :
    (lret.op = "canSend" /\ lret.user = u) =>
      /\ lret.ok <=> RecordMessage(history, limiter, u, now).ret
      /\ u \notin DOMAIN history =>
           lret.ok /\ RecordMessage(history, limiter, u, now).ret
      /\ \E n \in 0..Len(accepted[u]) :
           HistOf(history, u) = SubSeq(accepted[u], n + 1, Len(accepted[u]))

\* C14: while every call on the shared cache runs under the lock, so that it
\* is one indivisible step, rangeSum never returns a sum that differs from
\* the sum of the array at that moment, and between calls every cached sum
\* is the sum of its range in the array; without the lock a state with such
\* a returned and cached sum is reached (C14_Witness).
C14_SerializedNeverStale ==
  serial =>
    /\ ~thr.reader.stale
    /\ Quiescent => \A j \in 1..Len(data) : data[j].v = CurrentSum(data[j].k)

\* C14 witness: without the lock both calls have finished, rangeSum has
\* returned a sum that was no longer the array's, and a sum that is not the
\* array's is cached for a range that contains the written index.
C14_Witness ==
  /\ ~serial
  /\ Quiescent
  /\ thr.reader.stale
  /\ \E j \in 1..Len(data) :
       /\ data[j].k[1] <= thr.updater.idx /\ thr.updater.idx <= data[j].k[2]
       /\ data[j].v # CurrentSum(data[j].k)

====
